---- MODULE Spec2Model ----
(***************************************************************************)
(* A model of three parts of pyscf:                                        *)
(*   - pyscf/lib/logger.py      the leveled logging facility and timers    *)
(*   - pyscf/pbc/dft/kuks.py    get_veff and KUKS.energy_elec              *)
(*   - dft.libxc.parse_xc       as exercised by dft/test/test_libxc.py     *)
(*                                                                         *)
(* Conventions.  A Python value that may be None is a sequence of length   *)
(* at most one: <<>> is None and <<x>> is the value x.  A Python string    *)
(* is a sequence of pieces (TLA+ strings), so that '+' is \o and a prefix  *)
(* is the first piece.  A stream is the sequence of the strings written    *)
(* to it.                                                                  *)
(***************************************************************************)
EXTENDS Integers, Sequences, FiniteSets, TLC

VARIABLES
    \* ---- logger.py ----
    verbose,        \* rec.verbose
    TIMER_LEVEL,    \* the module global TIMER_LEVEL
    stdout,         \* what has been written to rec.stdout
    stderr,         \* what has been written to sys.stderr
    is_sys_stdout,  \* rec.stdout is sys.stdout
    rec_t0,         \* rec._t0
    rec_w0,         \* rec._w0
    now,            \* ticks of the process clocks
    ret,            \* value returned by the latest timer call
    lop,            \* the latest logger call: name, arguments, state it started in
    \* ---- libxc.parse_xc ----
    xc_desc,        \* the description handed to parse_xc
    xc_out,         \* what parse_xc returned
    \* ---- kuks.py ----
    grids,          \* ks.grids: coords, weights, non0tab
    small_rho_cutoff, \* ks.small_rho_cutoff
    last            \* the latest solver call: arguments, delegate results, outcome

logvars == <<verbose, TIMER_LEVEL, stdout, stderr, is_sys_stdout, rec_t0, rec_w0, now, ret, lop>>
xcvars == <<xc_desc, xc_out>>
ksvars == <<grids, small_rho_cutoff, last>>
vars == <<logvars, xcvars, ksvars>>

----------------------------------------------------------------------------
(***************************************************************************)
(* logger.py                                                               *)
(***************************************************************************)

\* Log levels, logger.py lines 14-27 and 72-89.
QUIET == 0
ERROR == 1
WARN == 2
NOTE == 3
NOTICE == NOTE
INFO == 4
DEBUG == 5
DEBUG1 == DEBUG + 1
DEBUG2 == DEBUG + 2
DEBUG3 == DEBUG + 3
DEBUG4 == DEBUG + 4
\* "It is 5 (DEBUG) by default", logger.py line 54.
DefaultTimerLevel == 5

Verbosity == QUIET..DEBUG4

\* Bounds of the logger model.
MaxSink == 3
MaxTimed == 1
MaxTick == 1
WallEpoch == 10

\* msg % args: every "%s" piece of msg is replaced by the next argument.
RECURSIVE Format(_, _)
Format(msg, args) ==
    IF msg = <<>> THEN <<>>
    ELSE IF Head(msg) = "%s" /\ args # <<>>
         THEN <<Head(args)>> \o Format(Tail(msg), Tail(args))
         ELSE <<Head(msg)>> \o Format(Tail(msg), args)

\* The calls the model makes: a format string with matching arguments.
Calls ==
    { [msg |-> <<"converged">>, args |-> <<>>],
      [msg |-> <<"E = ", "%s">>, args |-> <<"-1.5">>] }

\* The Logger object as the functions see it.
Rec == [stdout |-> stdout, verbose |-> verbose, t0 |-> rec_t0, w0 |-> rec_w0]

\* flush(rec, msg, *args): the new contents of rec.stdout.
flush(rec, msg, args) == rec.stdout \o << Format(msg, args), <<"\n">> >>

log(rec, msg, args) ==
    IF rec.verbose > QUIET THEN flush(rec, msg, args) ELSE rec.stdout

\* error with the write to sys.stderr moved under the level test.
error_gated(rec, err, msg, args) ==
    IF rec.verbose >= ERROR
    THEN [ stdout |-> flush(rec, <<"\nERROR: ">> \o msg \o <<"\n">>, args),
           stderr |-> Append(err, <<"ERROR: ">> \o Format(msg, args) \o <<"\n">>) ]
    ELSE [ stdout |-> rec.stdout, stderr |-> err ]

\* error: the new contents of rec.stdout and of sys.stderr.
error(rec, err, msg, args) ==
    [ stdout |-> IF rec.verbose >= ERROR
                 THEN flush(rec, <<"\nERROR: ">> \o msg \o <<"\n">>, args)
                 ELSE rec.stdout,
      stderr |-> Append(err, <<"ERROR: ">> \o Format(msg, args) \o <<"\n">>) ]

\* warn: the new contents of rec.stdout and of sys.stderr.
warn(rec, err, sys_stdout, msg, args) ==
    IF rec.verbose >= WARN
    THEN [ stdout |-> flush(rec, <<"\nWARN: ">> \o msg \o <<"\n">>, args),
           stderr |-> IF ~sys_stdout
                      THEN Append(err, <<"WARN: ">> \o Format(msg, args) \o <<"\n">>)
                      ELSE err ]
    ELSE [ stdout |-> rec.stdout, stderr |-> err ]

\* info with the level test off by one.
info_strict(rec, msg, args) ==
    IF rec.verbose > INFO THEN flush(rec, msg, args) ELSE rec.stdout

info(rec, msg, args) ==
    IF rec.verbose >= INFO THEN flush(rec, msg, args) ELSE rec.stdout

note(rec, msg, args) ==
    IF rec.verbose >= NOTICE THEN flush(rec, msg, args) ELSE rec.stdout

debug(rec, msg, args) ==
    IF rec.verbose >= DEBUG THEN flush(rec, msg, args) ELSE rec.stdout

debug1(rec, msg, args) ==
    IF rec.verbose >= DEBUG1 THEN flush(rec, msg, args) ELSE rec.stdout

debug2(rec, msg, args) ==
    IF rec.verbose >= DEBUG2 THEN flush(rec, msg, args) ELSE rec.stdout

debug3(rec, msg, args) ==
    IF rec.verbose >= DEBUG3 THEN flush(rec, msg, args) ELSE rec.stdout

debug4(rec, msg, args) ==
    IF rec.verbose >= DEBUG4 THEN flush(rec, msg, args) ELSE rec.stdout

\* A Python truth test of an optional number: None and 0 are false.
Truthy(x) == x # <<>> /\ x[1] # 0

\* time.clock() and time.time() at the current tick.
Clock == [cpu |-> now, wall |-> WallEpoch + now]

\* timer(rec, msg, cpu0, wall0) reading the clocks as clk under timer level tl:
\* the new rec._t0, rec._w0 and rec.stdout, and the value returned.
timer(rec, tl, msg, cpu0, wall0, clk) ==
    LET c0 == IF cpu0 = <<>> THEN rec.t0 ELSE cpu0[1]
    IN  IF Truthy(wall0)
        THEN [ t0 |-> clk.cpu, w0 |-> clk.wall,
               stdout |-> IF rec.verbose >= tl
                          THEN flush(rec, <<"    CPU time for ", msg, " ",
                                            ToString(clk.cpu - c0),
                                            " sec, wall time ",
                                            ToString(clk.wall - wall0[1]),
                                            " sec">>, <<>>)
                          ELSE rec.stdout,
               ret |-> <<clk.cpu, clk.wall>> ]
        ELSE [ t0 |-> clk.cpu, w0 |-> rec.w0,
               stdout |-> IF rec.verbose >= tl
                          THEN flush(rec, <<"    CPU time for ", msg, " ",
                                            ToString(clk.cpu - c0), " sec">>, <<>>)
                          ELSE rec.stdout,
               ret |-> <<clk.cpu>> ]

\* timer_debug1 that leaves the timestamps alone below DEBUG1.
timer_debug1_stale(rec, tl, msg, cpu0, wall0, clk) ==
    IF rec.verbose >= DEBUG1
    THEN timer(rec, tl, msg, cpu0, wall0, clk)
    ELSE IF Truthy(wall0)
         THEN [ t0 |-> rec.t0, w0 |-> rec.w0, stdout |-> rec.stdout,
                ret |-> <<rec.t0, rec.w0>> ]
         ELSE [ t0 |-> rec.t0, w0 |-> rec.w0, stdout |-> rec.stdout,
                ret |-> <<rec.t0>> ]

timer_debug1(rec, tl, msg, cpu0, wall0, clk) ==
    IF rec.verbose >= DEBUG1
    THEN timer(rec, tl, msg, cpu0, wall0, clk)
    ELSE IF Truthy(wall0)
         THEN [ t0 |-> clk.cpu, w0 |-> clk.wall, stdout |-> rec.stdout,
                ret |-> <<clk.cpu, clk.wall>> ]
         ELSE [ t0 |-> clk.cpu, w0 |-> rec.w0, stdout |-> rec.stdout,
                ret |-> <<clk.cpu>> ]

\* The record of a logger call: its name and arguments and the state it started in.
LopOf(op, msg, args, cpu0, wall0) ==
    [ op |-> op, msg |-> msg, args |-> args, cpu0 |-> cpu0, wall0 |-> wall0,
      rec0 |-> Rec, err0 |-> stderr, tl |-> TIMER_LEVEL, clk |-> Clock ]

NoLop == [ op |-> "none", msg |-> <<>>, args |-> <<>>, cpu0 |-> <<>>, wall0 |-> <<>>,
           rec0 |-> [stdout |-> <<>>, verbose |-> NOTE, t0 |-> 0, w0 |-> WallEpoch],
           err0 |-> <<>>, tl |-> DefaultTimerLevel,
           clk |-> [cpu |-> 0, wall |-> WallEpoch] ]

\* Logger(stdout, verbose): empty streams, both timestamps read from the clocks.
LoggerInit ==
    /\ verbose \in Verbosity
    /\ TIMER_LEVEL = DefaultTimerLevel
    /\ stdout = <<>>
    /\ stderr = <<>>
    /\ is_sys_stdout \in BOOLEAN
    /\ now = 0
    /\ rec_t0 = 0
    /\ rec_w0 = WallEpoch
    /\ ret = <<>>
    /\ lop = NoLop

LoggerIdle ==
    /\ verbose = NOTE
    /\ TIMER_LEVEL = DefaultTimerLevel
    /\ stdout = <<>>
    /\ stderr = <<>>
    /\ is_sys_stdout = TRUE
    /\ now = 0
    /\ rec_t0 = 0
    /\ rec_w0 = WallEpoch
    /\ ret = <<>>
    /\ lop = NoLop

Room == Len(stdout) < MaxSink /\ Len(stderr) < MaxSink

\* A leveled emit that touches rec.stdout only.
EmitStep(op, c, out) ==
    /\ Room
    /\ stdout' = out
    /\ lop' = LopOf(op, c.msg, c.args, <<>>, <<>>)
    /\ UNCHANGED <<verbose, TIMER_LEVEL, stderr, is_sys_stdout, rec_t0, rec_w0, now, ret>>
    /\ UNCHANGED <<xcvars, ksvars>>

\* A leveled emit that may also write to sys.stderr.
EmitErrStep(op, c, r) ==
    /\ Room
    /\ stdout' = r.stdout
    /\ stderr' = r.stderr
    /\ lop' = LopOf(op, c.msg, c.args, <<>>, <<>>)
    /\ UNCHANGED <<verbose, TIMER_LEVEL, is_sys_stdout, rec_t0, rec_w0, now, ret>>
    /\ UNCHANGED <<xcvars, ksvars>>

Log == \E c \in Calls : EmitStep("log", c, log(Rec, c.msg, c.args))
Error == \E c \in Calls : EmitErrStep("error", c, error(Rec, stderr, c.msg, c.args))
Warn == \E c \in Calls : EmitErrStep("warn", c, warn(Rec, stderr, is_sys_stdout, c.msg, c.args))
Info == \E c \in Calls : EmitStep("info", c, info(Rec, c.msg, c.args))
Note == \E c \in Calls : EmitStep("note", c, note(Rec, c.msg, c.args))
Debug == \E c \in Calls : EmitStep("debug", c, debug(Rec, c.msg, c.args))
Debug1 == \E c \in Calls : EmitStep("debug1", c, debug1(Rec, c.msg, c.args))
Debug2 == \E c \in Calls : EmitStep("debug2", c, debug2(Rec, c.msg, c.args))
Debug3 == \E c \in Calls : EmitStep("debug3", c, debug3(Rec, c.msg, c.args))
Debug4 == \E c \in Calls : EmitStep("debug4", c, debug4(Rec, c.msg, c.args))

\* log.verbose = v
SetVerbose ==
    /\ \E v \in Verbosity : v # verbose /\ verbose' = v
    /\ lop' = LopOf("verbose", <<>>, <<>>, <<>>, <<>>)
    /\ UNCHANGED <<TIMER_LEVEL, stdout, stderr, is_sys_stdout, rec_t0, rec_w0, now, ret>>
    /\ UNCHANGED <<xcvars, ksvars>>

\* lib.logger.TIMER_LEVEL = v
SetTimerLevel ==
    /\ \E v \in Verbosity : v # TIMER_LEVEL /\ TIMER_LEVEL' = v
    /\ lop' = LopOf("timer_level", <<>>, <<>>, <<>>, <<>>)
    /\ UNCHANGED <<verbose, stdout, stderr, is_sys_stdout, rec_t0, rec_w0, now, ret>>
    /\ UNCHANGED <<xcvars, ksvars>>

\* Time passes.
Tick ==
    /\ now < MaxTick
    /\ now' = now + 1
    /\ UNCHANGED <<verbose, TIMER_LEVEL, stdout, stderr, is_sys_stdout, rec_t0, rec_w0, ret, lop>>
    /\ UNCHANGED <<xcvars, ksvars>>

\* The starting times a caller may hand to a timer.
Cpu0s == {<<>>} \cup { <<t>> : t \in 0..MaxTick }
Wall0s == {<<>>, <<0>>} \cup { <<WallEpoch + t>> : t \in 0..MaxTick }

TimerStep(op, cpu0, wall0, r) ==
    /\ Len(stdout) < MaxTimed
    /\ rec_t0' = r.t0
    /\ rec_w0' = r.w0
    /\ stdout' = r.stdout
    /\ ret' = r.ret
    /\ lop' = LopOf(op, <<"test">>, <<>>, cpu0, wall0)
    /\ UNCHANGED <<verbose, TIMER_LEVEL, stderr, is_sys_stdout, now>>
    /\ UNCHANGED <<xcvars, ksvars>>

Timer ==
    \E cpu0 \in Cpu0s, wall0 \in Wall0s :
        TimerStep("timer", cpu0, wall0, timer(Rec, TIMER_LEVEL, "test", cpu0, wall0, Clock))

TimerDebug1 ==
    \E cpu0 \in Cpu0s, wall0 \in Wall0s :
        TimerStep("timer_debug1", cpu0, wall0,
                  timer_debug1(Rec, TIMER_LEVEL, "test", cpu0, wall0, Clock))

----------------------------------------------------------------------------

----------------------------------------------------------------------------
(***************************************************************************)
(* dft.libxc.parse_xc.  A description is a sequence of tokens: names,      *)
(* decimal literals and the separators "," "+" "*".  Coefficients, weights *)
(* and the hybrid coefficient are integers in units of 1/100.              *)
(***************************************************************************)

\* Bounds of the descriptions the model parses.
MaxXTerms == 2
MaxCTerms == 1

\* float(literal), in hundredths.
Literals == {".5", ".2", "1"}
FloatOf(tok) ==
    CASE tok = ".5" -> 50
      [] tok = ".2" -> 20
      [] tok = "1" -> 100

\* str.upper() on the names the model uses.
Upper(tok) ==
    CASE tok = "hf" -> "HF"
      [] tok = "b3lyp" -> "B3LYP"
      [] tok = "vwn" -> "VWN"
      [] tok = "lda" -> "LDA"
      [] OTHER -> tok

\* The identifiers the functional library gives the primitive functionals.
PrimitiveId(key) ==
    CASE key = "LDA" -> <<1>>
      [] key = "SLATER" -> <<1>>
      [] key = "B88" -> <<106>>
      [] key = "LYP" -> <<131>>
      [] key = "VWN" -> <<7>>
      [] OTHER -> <<>>

\* The composite aliases: a hybrid fraction and weighted primitive terms.
Alias(key) ==
    CASE key = "B3LYP" -> << [ hyb |-> 20,
                               fn_facs |-> << <<1, 8>>, <<106, 72>>,
                                              <<131, 81>>, <<7, 19>> >> ] >>
      [] OTHER -> <<>>

\* s.split(sep) on token sequences.
RECURSIVE Split(_, _)
Split(s, sep) ==
    IF \A i \in 1..Len(s) : s[i] # sep
    THEN <<s>>
    ELSE LET i == CHOOSE j \in 1..Len(s) :
                      s[j] = sep /\ \A k \in 1..(j - 1) : s[k] # sep
         IN  <<SubSeq(s, 1, i - 1)>> \o Split(SubSeq(s, i + 1, Len(s)), sep)

\* One term of a description: what it adds to the hybrid coefficient and to
\* the list of functional terms, or the token that is not understood.
parse_token(token) ==
    IF token = <<>>
    THEN [ok |-> TRUE, hyb |-> 0, fn_facs |-> <<>>, bad |-> <<>>]
    ELSE LET parts == Split(token, "*")
             fac == IF Len(parts) = 2 THEN FloatOf(parts[1][1]) ELSE 100
             key == Upper(IF Len(parts) = 2 THEN parts[2][1] ELSE parts[1][1])
         IN  IF key = "HF"
             THEN [ok |-> TRUE, hyb |-> fac, fn_facs |-> <<>>, bad |-> <<>>]
             ELSE IF Alias(key) # <<>>
             THEN [ok |-> TRUE, hyb |-> Alias(key)[1].hyb,
                   fn_facs |-> Alias(key)[1].fn_facs, bad |-> <<>>]
             ELSE IF PrimitiveId(key) # <<>>
             THEN [ok |-> TRUE, hyb |-> 0,
                   fn_facs |-> << <<PrimitiveId(key)[1], (fac * 100) \div 100>> >>,
                   bad |-> <<>>]
             ELSE [ok |-> FALSE, hyb |-> 0, fn_facs |-> <<>>, bad |-> <<key>>]

\* The terms of one side of the description, left to right.
RECURSIVE parse_terms(_)
parse_terms(tokens) ==
    IF tokens = <<>>
    THEN [ok |-> TRUE, hyb |-> 0, fn_facs |-> <<>>, bad |-> <<>>]
    ELSE LET h == parse_token(Head(tokens))
             t == parse_terms(Tail(tokens))
         IN  IF ~h.ok THEN h
             ELSE IF ~t.ok THEN t
             ELSE [ok |-> TRUE, hyb |-> h.hyb + t.hyb,
                   fn_facs |-> h.fn_facs \o t.fn_facs, bad |-> <<>>]

\* remove_dup that merges nothing.
remove_dup_keep(fn_facs) == fn_facs

\* Terms of the same identifier are merged at the place of the first.
RECURSIVE remove_dup(_)
remove_dup(fn_facs) ==
    IF fn_facs = <<>> THEN <<>>
    ELSE LET n == Len(fn_facs)
             init == remove_dup(SubSeq(fn_facs, 1, n - 1))
             x == fn_facs[n]
         IN  IF \E i \in 1..Len(init) : init[i][1] = x[1]
             THEN [ i \in 1..Len(init) |->
                      IF init[i][1] = x[1]
                      THEN <<init[i][1], init[i][2] + x[2]>>
                      ELSE init[i] ]
             ELSE Append(init, x)

\* parse_xc(description): the hybrid coefficient and the functional terms,
\* or the token that is not understood.
parse_xc(description) ==
    LET sides == Split(description, ",")
        x_code == sides[1]
        c_code == IF Len(sides) > 1 THEN sides[2] ELSE <<>>
        r == parse_terms(Split(x_code, "+") \o Split(c_code, "+"))
    IN  IF r.ok
        THEN [ok |-> TRUE, hyb |-> r.hyb, fn_facs |-> remove_dup(r.fn_facs), bad |-> <<>>]
        ELSE r

\* The descriptions the model parses: terms joined by "+", sides by ",".
Coefs == {<<>>, <<".5", "*">>}
Names == {"HF", "B3LYP", "VWN", "b3lyp", "XYZ"}
Terms == { c \o <<n>> : c \in Coefs, n \in Names }

RECURSIVE Join(_)
Join(terms) ==
    IF terms = <<>> THEN <<>>
    ELSE IF Len(terms) = 1 THEN terms[1]
    ELSE terms[1] \o <<"+">> \o Join(Tail(terms))

TermLists(n) == UNION { [1..k -> Terms] : k \in 0..n }

Descriptions ==
    { Join(x) : x \in TermLists(MaxXTerms) \ {<<>>} }
    \cup { Join(x) \o <<",">> \o Join(c) :
              x \in TermLists(MaxXTerms), c \in TermLists(MaxCTerms) }

----------------------------------------------------------------------------
(***************************************************************************)
(* pbc/dft/kuks.py.  Electron counts are integers in units of 1/1000       *)
(* electron.  The hybrid coefficient is an integer in units of 1e-11.      *)
(* Potentials and energies are integers in one fixed-point unit; the       *)
(* exchange operator vk and the traces of dm with vk are counted in 1e11   *)
(* times that unit, so that vk * hyb is the plain integer product.         *)
(***************************************************************************)

\* Bounds of the solver model: grid points and k-points.
NPts == 2
NKpts == 2

\* abs(hyb) < 1e-10, in units of 1e-11 (kuks.py line 52).
HybTol == 10

\* A non-negative decimal m * 10^e with one digit m.
Dec(m, e) == [m |-> m, e |-> e]
DecGT(a, b) ==
    IF a.m = 0 THEN FALSE
    ELSE IF b.m = 0 THEN TRUE
    ELSE a.e > b.e \/ (a.e = b.e /\ a.m > b.m)
Zero == Dec(0, 0)
\* 1e-20 (kuks.py line 71) and the default small_rho_cutoff 1e-7 (line 91).
PruneFloor == Dec(1, -20)
DefaultCutoff == Dec(1, -7)
Cutoffs == {PruneFloor, Dec(2, -20), DefaultCutoff}

Abs(i) == IF i < 0 THEN -i ELSE i

\* The objects that reach get_veff as arguments.
CellObj == [type |-> "Cell", ndim |-> 0, shape0 |-> 0]
KSObj == [type |-> "KUKS", ndim |-> 0, shape0 |-> 0]
Array(nd, s0) == [type |-> "ndarray", ndim |-> nd, shape0 |-> s0]
\* ks.make_rdm1(): spin x k-point x nao x nao.
make_rdm1 == Array(4, 2)
\* cell.nelec
nelec == <<1000, 1000>>

\* ks.grids before it is built, and after grids.build(with_non0tab=True).
NoGrid == [coords |-> <<>>, weights |-> <<>>, non0tab |-> <<>>]
build(g) ==
    [ coords |-> << [i \in 1..NPts |-> i] >>,
      weights |-> << [i \in 1..NPts |-> 1] >>,
      non0tab |-> << [i \in 1..NPts |-> i] >> ]

\* a[idx] for a boolean mask idx.
RECURSIVE Take(_, _)
Take(a, idx) ==
    IF a = <<>> THEN <<>>
    ELSE IF Head(idx) THEN <<Head(a)>> \o Take(Tail(a), Tail(idx))
    ELSE Take(Tail(a), Tail(idx))

\* The cutoff one call works with, lines 32-37, with the cutoff kept active
\* on a grid that is already built.
active_cutoff_kept(g, ks_cutoff) == ks_cutoff

\* The cutoff one call works with, lines 32-37.
active_cutoff(g, ks_cutoff) ==
    IF g.coords = <<>> THEN ks_cutoff ELSE Zero

\* Line 48.
ground_state(dm, kpts_band) ==
    dm.ndim = 4 /\ dm.shape0 = 2 /\ kpts_band = <<>>

\* The test of line 39 written for the wrong flag value.
no_density_hermi1(hermi) == hermi = 1

\* hermi == 2: the density is zero and nothing is integrated (line 39).
no_density(hermi) == hermi = 2

\* abs(hyb) < 1e-10
is_pure(hyb) == Abs(hyb) < HybTol

\* exc after the exact-exchange step with the correction applied in every layout.
exc_with_exx_always(exc, hyb, gs, tr_k) ==
    IF ~is_pure(hyb) THEN exc - (tr_k * hyb) \div (2 * NKpts) ELSE exc

\* exc after lines 52-61; tr_k is the real part of the trace of dm with vk,
\* summed over the spins and the k-points.
exc_with_exx(exc, hyb, gs, tr_k) ==
    IF ~is_pure(hyb) /\ gs
    THEN exc - (tr_k * hyb) \div (2 * NKpts)
    ELSE exc

\* The pruning test without the ground-state condition.
prune_cond_any_state(cutoff, gs, n, ne) ==
    /\ DecGT(cutoff, PruneFloor)
    /\ 100 * Abs(n[1] - ne[1]) < n[1]
    /\ 100 * Abs(n[2] - ne[2]) < n[2]

\* Lines 71-72: abs(n[i]-nelec[i]) < 0.01*n[i].
prune_cond(cutoff, gs, n, ne) ==
    /\ DecGT(cutoff, PruneFloor)
    /\ gs
    /\ 100 * Abs(n[1] - ne[1]) < n[1]
    /\ 100 * Abs(n[2] - ne[2]) < n[2]

\* Binding of a call get_veff(*pos, hermi=.., kpts_band=..) to the parameters
\* (ks, cell, dm, dm_last, ...).
Bind(pos, hermi, kpts_band) ==
    [ ks |-> pos[1],
      cell |-> IF Len(pos) >= 2 THEN <<pos[2]>> ELSE <<>>,
      dm |-> IF Len(pos) >= 3 THEN <<pos[3]>> ELSE <<>>,
      dm_last |-> IF Len(pos) >= 4 THEN <<pos[4]>> ELSE <<>>,
      hermi |-> hermi,
      kpts_band |-> kpts_band ]

\* obj.get_veff(*args): the bound method puts obj first.
BoundCall(obj, args, hermi, kpts_band) == Bind(<<obj>> \o args, hermi, kpts_band)

\* get_veff on the grid g of a solver with cutoff ks_cutoff, with arguments a
\* and the delegates answering x: the grid afterwards, whether the call
\* raised, the delegates invoked in order, and the tagged result.
get_veff(g, ks_cutoff, a, x) ==
    LET cell == IF a.cell = <<>> THEN CellObj ELSE a.cell[1]
        dm == IF a.dm = <<>> THEN make_rdm1 ELSE a.dm[1]
        fresh == g.coords = <<>>
        g1 == IF fresh THEN build(g) ELSE g
        cutoff == active_cutoff(g, ks_cutoff)
        inv1 == IF fresh THEN <<"grids.build", "logger.timer">> ELSE <<>>
        isarr == dm.type = "ndarray"
        nr_ok == isarr \/ x.junk_ok
        ni == IF no_density(a.hermi) \/ ~isarr
              THEN [n |-> <<0, 0>>, exc |-> 0, vxc |-> 0]
              ELSE [n |-> x.n, exc |-> x.exc, vxc |-> x.vxc]
        inv2 == inv1 \o
                (IF no_density(a.hermi) THEN <<>>
                 ELSE IF nr_ok THEN <<"_numint.nr_uks", "logger.debug", "logger.timer">>
                 ELSE <<"_numint.nr_uks">>)
        gs == ground_state(dm, a.kpts_band)
        pure == is_pure(x.hyb)
        vxc == IF pure THEN ni.vxc + x.vj ELSE ni.vxc + x.vj - x.vk * x.hyb
        exc == exc_with_exx(ni.exc, x.hyb, gs, x.tr_k)
        ecoul == IF gs THEN <<x.tr_j \div (2 * NKpts)>> ELSE <<>>
        inv3 == inv2 \o <<"_numint.hybrid_coeff">>
                \o (IF pure THEN <<"get_j">> ELSE <<"get_jk">>)
                \o <<"tag_array">>
        prune == prune_cond(cutoff, gs, ni.n, nelec)
        inv4 == inv3 \o
                (IF prune
                 THEN <<"_numint.large_rho_indices", "logger.debug", "grids.make_mask">>
                 ELSE <<>>)
        g2 == IF prune
              THEN [ coords |-> <<Take(g1.coords[1], x.idx)>>,
                     weights |-> <<Take(g1.weights[1], x.idx)>>,
                     non0tab |-> <<Take(g1.coords[1], x.idx)>> ]
              ELSE g1
    IN  IF ~isarr
        THEN [ grids |-> g1, raised |-> TRUE, invoked |-> inv2, pruned |-> FALSE,
               n |-> <<0, 0>>, fn_exc |-> 0, fn_vxc |-> 0,
               vxc |-> 0, ecoul |-> <<>>, exc |-> 0 ]
        ELSE [ grids |-> g2, raised |-> FALSE, invoked |-> inv4, pruned |-> prune,
               n |-> ni.n, fn_exc |-> ni.exc, fn_vxc |-> ni.vxc,
               vxc |-> vxc, ecoul |-> ecoul, exc |-> exc ]

\* The tagged array a successful call returns.
Tagged(r) == [vxc |-> r.vxc, ecoul |-> r.ecoul, exc |-> r.exc]

Has(seq, e) == \E i \in 1..Len(seq) : seq[i] = e

\* What the delegates answer.  n: the electron counts of nr_uks; exc, vxc: its
\* energy and potential; hyb: hybrid_coeff; vj: vj[0]+vj[1]; vk; tr_k, tr_j:
\* the real parts of the traces with vk and with vj; idx: large_rho_indices;
\* junk_ok: whether nr_uks returns when handed something that is no array.
\* The traces are multiples of 2 * len(kpts), so .5 * weight stays integral.
NPairs == { <<1000, 1000>>, <<990, 1000>>, <<1010, 1000>>, <<1011, 1000>>,
            <<1000, 1010>>, <<1000, 1011>> }
HybValues == {0, 9, 10, -10}
TrKValues == {0, 2 * NKpts * 3}
Masks == [1..NPts -> BOOLEAN]
X0 == [ n |-> <<1000, 1000>>, exc |-> -30, vxc |-> 7, hyb |-> 0, vj |-> 5, vk |-> 3,
        tr_k |-> 0, tr_j |-> 2 * NKpts * 5, idx |-> [i \in 1..NPts |-> TRUE],
        junk_ok |-> FALSE ]

\* The answer of a delegate is drawn only in a call that invokes it: r is the
\* call as it runs with the answers drawn so far.
NChoices(r) ==
    IF Has(r.invoked, "_numint.nr_uks") /\ ~r.raised THEN NPairs ELSE {X0.n}
TrKChoices(r) ==
    IF Has(r.invoked, "get_jk") THEN TrKValues ELSE {X0.tr_k}
IdxChoices(r) ==
    IF Has(r.invoked, "_numint.large_rho_indices") THEN Masks ELSE {X0.idx}

\* The density matrices callers hand in, and the calls they make.
DMs == {Array(4, 2), Array(4, 3), Array(5, 2)}
VeffArgs ==
    { BoundCall(KSObj, pos, h, b) :
        pos \in {<<>>} \cup { <<CellObj, d>> : d \in DMs \ {make_rdm1} },
        h \in {1, 2}, b \in {<<>>, <<"kpts_band">>} }

NoCall == [op |-> "none"]

KSInit ==
    /\ grids = NoGrid
    /\ small_rho_cutoff \in Cutoffs
    /\ last = NoCall

\* ks.get_veff(cell, dm, hermi=.., kpts_band=..)
GetVeff ==
    \E a \in VeffArgs, h \in HybValues :
      LET x1 == [X0 EXCEPT !.hyb = h] IN
      \E n \in NChoices(get_veff(grids, small_rho_cutoff, a, x1)) :
        LET x2 == [x1 EXCEPT !.n = n] IN
        \E t \in TrKChoices(get_veff(grids, small_rho_cutoff, a, x2)) :
          LET x3 == [x2 EXCEPT !.tr_k = t] IN
          \E m \in IdxChoices(get_veff(grids, small_rho_cutoff, a, x3)) :
            LET x == [x3 EXCEPT !.idx = m]
                r == get_veff(grids, small_rho_cutoff, a, x)
            IN  /\ grids' = r.grids
                /\ last' = [op |-> "get_veff", a |-> a, x |-> x, grid0 |-> grids, r |-> r]
                /\ UNCHANGED <<small_rho_cutoff, logvars, xcvars>>

\* The one-electron energy: weight * Re(trace of h1e with dm[0] and dm[1]).
TrH == 2 * NKpts * 6
e1_of(tr_h) == tr_h \div NKpts

\* KUKS.energy_elec(dm_kpts, h1e_kpts, vhf) with get_veff called as the code
\* calls it: the grid afterwards, the call made, and the pair returned.
energy_elec(g, ks_cutoff, dm_kpts, vhf, x) ==
    LET dm == IF dm_kpts = <<>> THEN make_rdm1 ELSE dm_kpts[1]
        fresh == vhf = <<>> \/ vhf[1].ecoul = <<>>
        a == BoundCall(KSObj, <<KSObj, CellObj, dm>>, 1, <<>>)
        r == get_veff(g, ks_cutoff, a, x)
        v == IF fresh THEN Tagged(r) ELSE vhf[1]
        e1 == e1_of(TrH)
        failed == fresh /\ (r.raised \/ r.ecoul = <<>>)
    IN  [ grids |-> IF fresh THEN r.grids ELSE g,
          fresh |-> fresh,
          call |-> IF fresh THEN <<a>> ELSE <<>>,
          veff |-> IF fresh THEN <<r>> ELSE <<>>,
          dm |-> dm,
          raised |-> failed,
          ret |-> IF failed THEN <<>>
                  ELSE <<e1 + v.ecoul[1] + v.exc, v.ecoul[1] + v.exc>> ]

\* The effective potentials a caller has at hand: none, or the latest result.
VhfArgs ==
    {<<>>} \cup
    (IF last.op = "get_veff" /\ ~last.r.raised THEN {<<Tagged(last.r)>>} ELSE {})

EnergyElec ==
    \E dm_kpts \in {<<>>, <<Array(4, 2)>>}, vhf \in VhfArgs, j \in BOOLEAN :
        LET x == [X0 EXCEPT !.junk_ok = j]
            e == energy_elec(grids, small_rho_cutoff, dm_kpts, vhf, x)
        IN  /\ (j => e.fresh)
            /\ grids' = e.grids
            /\ last' = [op |-> "energy_elec", dm_kpts |-> dm_kpts, vhf |-> vhf,
                        x |-> x, grid0 |-> grids, e |-> e]
            /\ UNCHANGED <<small_rho_cutoff, logvars, xcvars>>

----------------------------------------------------------------------------
XCIdle == xc_desc = <<>> /\ xc_out = <<>>
KSIdle == grids = NoGrid /\ small_rho_cutoff = DefaultCutoff /\ last = NoCall

InitKS == KSInit /\ LoggerIdle /\ XCIdle
NextKS == GetVeff \/ EnergyElec
SpecKS == InitKS /\ [][NextKS]_vars

InitXC ==
    /\ LoggerIdle
    /\ KSIdle
    /\ xc_desc \in Descriptions
    /\ xc_out = <<>>

\* hyb, fn_facs = parse_xc(description)
ParseXC ==
    /\ xc_out = <<>>
    /\ xc_out' = <<parse_xc(xc_desc)>>
    /\ UNCHANGED <<xc_desc, logvars, ksvars>>

NextXC == ParseXC
SpecXC == InitXC /\ [][NextXC]_vars

InitLogger == LoggerInit /\ XCIdle /\ KSIdle
NextLogger ==
    \/ SetVerbose
    \/ Log \/ Error \/ Warn \/ Info \/ Note
    \/ Debug \/ Debug1 \/ Debug2 \/ Debug3 \/ Debug4
SpecLogger == InitLogger /\ [][NextLogger]_vars

NextTimer == SetTimerLevel \/ Tick \/ Timer \/ TimerDebug1
SpecTimer == InitLogger /\ [][NextTimer]_vars
----------------------------------------------------------------------------
(***************************************************************************)
(* Properties of logger.py                                                 *)
(***************************************************************************)

\* What the latest call appended to rec.stdout and to sys.stderr.
Wrote == SubSeq(stdout, Len(lop.rec0.stdout) + 1, Len(stdout))
ErrWrote == SubSeq(stderr, Len(lop.err0) + 1, Len(stderr))
KeptStreams ==
    /\ Len(stdout) >= Len(lop.rec0.stdout)
    /\ SubSeq(stdout, 1, Len(lop.rec0.stdout)) = lop.rec0.stdout
    /\ Len(stderr) >= Len(lop.err0)
    /\ SubSeq(stderr, 1, Len(lop.err0)) = lop.err0

\* part occurs in whole as a run of consecutive pieces.
Within(part, whole) ==
    \E i \in 0..(Len(whole) - Len(part)) : SubSeq(whole, i + 1, i + Len(part)) = part

IsPrefix(s, t) == Len(s) <= Len(t) /\ SubSeq(t, 1, Len(s)) = s

\* The thresholds of the leveled emit operations.
Threshold ==
    [ op \in {"log", "error", "warn", "note", "info", "debug",
              "debug1", "debug2", "debug3", "debug4"} |->
        CASE op = "log" -> 1
          [] op = "error" -> 1
          [] op = "warn" -> 2
          [] op = "note" -> 3
          [] op = "info" -> 4
          [] op = "debug" -> 5
          [] op = "debug1" -> 6
          [] op = "debug2" -> 7
          [] op = "debug3" -> 8
          [] op = "debug4" -> 9 ]
EmitOps == DOMAIN Threshold

\* rec.stdout after the emit operation op.
EmitOut(op, rec, err, sys_stdout, msg, args) ==
    CASE op = "log" -> log(rec, msg, args)
      [] op = "error" -> error(rec, err, msg, args).stdout
      [] op = "warn" -> warn(rec, err, sys_stdout, msg, args).stdout
      [] op = "note" -> note(rec, msg, args)
      [] op = "info" -> info(rec, msg, args)
      [] op = "debug" -> debug(rec, msg, args)
      [] op = "debug1" -> debug1(rec, msg, args)
      [] op = "debug2" -> debug2(rec, msg, args)
      [] op = "debug3" -> debug3(rec, msg, args)
      [] op = "debug4" -> debug4(rec, msg, args)

\* C6: a leveled emit operation writes its message, followed by a line
\* terminator, to the Logger's sink if and only if the verbosity is at or
\* above the operation's threshold, whatever verbosity changes came before;
\* what it writes at the current verbosity it also writes at every higher one.
C6_Gating ==
    lop.op \in EmitOps =>
        /\ KeptStreams
        /\ verbose = lop.rec0.verbose
        /\ (Wrote # <<>>) <=> (verbose >= Threshold[lop.op])
        /\ Wrote # <<>> =>
              /\ Len(Wrote) = 2
              /\ Within(Format(lop.msg, lop.args), Wrote[1])
              /\ Wrote[2] = <<"\n">>
        /\ \A v \in Verbosity :
              v >= verbose =>
                 IsPrefix(stdout, EmitOut(lop.op, [lop.rec0 EXCEPT !.verbose = v],
                                          lop.err0, is_sys_stdout, lop.msg, lop.args))

\* info is silent at NOTE (3) and, once the verbosity is raised to INFO (4),
\* writes after something was written before it.
C6_Witness ==
    /\ lop.op = "info"
    /\ verbose = INFO
    /\ lop.rec0.stdout # <<>>
    /\ Wrote # <<>>

\* C7: every call of error writes one line prefixed "ERROR: " to the standard
\* error stream, at every verbosity; the sink receives the message only when
\* the verbosity is at least ERROR.
C7_ErrorStderr ==
    lop.op = "error" =>
        /\ KeptStreams
        /\ Len(ErrWrote) = 1
        /\ Head(ErrWrote[1]) = "ERROR: "
        /\ SubSeq(ErrWrote[1], 2, Len(ErrWrote[1]) - 1) = Format(lop.msg, lop.args)
        /\ ErrWrote[1][Len(ErrWrote[1])] = "\n"
        /\ (Wrote # <<>>) <=> (verbose >= ERROR)

\* error at QUIET: nothing on the sink, one line on the standard error stream.
C7_Witness ==
    /\ lop.op = "error"
    /\ verbose = QUIET
    /\ Wrote = <<>>
    /\ Len(ErrWrote) = 1

\* C8: timer returns a single CPU timestamp when no wall time is supplied and
\* a pair of timestamps for every supplied wall time; the timing line is
\* written if and only if the verbosity is at or above TIMER_LEVEL, and the
\* stored timestamps are the returned ones.
C8_TimerReturn ==
    lop.op = "timer" =>
        /\ lop.wall0 = <<>> => ret = <<rec_t0>>
        /\ lop.wall0 # <<>> => ret = <<rec_t0, rec_w0>>
        /\ (Wrote # <<>>) <=> (verbose >= lop.tl)

\* C9 as stated: timer_debug1 writes the timing line if and only if the
\* verbosity is at or above DEBUG1, for every setting of TIMER_LEVEL.
C9_GatedByDebug1Only ==
    lop.op = "timer_debug1" => ((Wrote # <<>>) <=> (verbose >= DEBUG1))

\* C9 amended: timer_debug1 returns what timer returns and stores the
\* timestamps timer stores for the same arguments, and writes timer's line
\* if and only if the verbosity is at or above both DEBUG1 and TIMER_LEVEL;
\* below DEBUG1 it updates the timestamps and writes nothing.
C9_TimerDebug1 ==
    lop.op = "timer_debug1" =>
        LET r == timer(lop.rec0, lop.tl, lop.msg[1], lop.cpu0, lop.wall0, lop.clk)
        IN  /\ KeptStreams
            /\ ret = r.ret
            /\ rec_t0 = r.t0
            /\ rec_w0 = r.w0
            /\ (Wrote # <<>>) <=> (verbose >= DEBUG1 /\ verbose >= lop.tl)
            /\ Wrote # <<>> => stdout = r.stdout
            /\ verbose < DEBUG1 => (rec_t0 = lop.clk.cpu /\ Wrote = <<>>)

\* timer_debug1 at DEBUG1 with TIMER_LEVEL above DEBUG1 and a wall time given:
\* a pair is returned and nothing is written.
C9_Witness ==
    /\ lop.op = "timer_debug1"
    /\ verbose = DEBUG1
    /\ lop.tl > DEBUG1
    /\ Truthy(lop.wall0)
    /\ Len(ret) = 2
    /\ Wrote = <<>>
----------------------------------------------------------------------------
(***************************************************************************)
(* Properties of kuks.py                                                   *)
(***************************************************************************)

IsVeff == last.op = "get_veff"

\* The layout of a ground-state evaluation, read off the arguments.
GroundLayout(a) ==
    LET dm == IF a.dm = <<>> THEN make_rdm1 ELSE a.dm[1]
    IN  dm.ndim = 4 /\ dm.shape0 = 2 /\ a.kpts_band = <<>>

Hybrid(x) == Abs(x.hyb) >= HybTol

\* The exact-exchange correction 0.5 * hyb * weight * Re[sum Tr(dm.vk)].
ExxCorrection(x) == (x.tr_k * x.hyb) \div (2 * NKpts)

\* The potential without a functional contribution: Coulomb, less hyb * vk.
CoulombExchange(x) == IF Hybrid(x) THEN x.vj - x.vk * x.hyb ELSE x.vj

NumintOps == {"_numint.nr_uks", "_numint.hybrid_coeff", "_numint.large_rho_indices"}

\* C1 as stated: with hermi == 2 the call yields the electron counts (0, 0),
\* exc = 0 on the result and no functional contribution to the potential, for
\* every density matrix and functional, and invokes nothing of ks._numint.
C1_Hermi2AllZero ==
    (IsVeff /\ last.a.hermi = 2) =>
        /\ last.r.n = <<0, 0>>
        /\ last.r.exc = 0
        /\ last.r.vxc = CoulombExchange(last.x)
        /\ \A i \in 1..Len(last.r.invoked) : last.r.invoked[i] \notin NumintOps

\* C1 amended: with hermi == 2 the call yields the electron counts (0, 0) and
\* no functional contribution to the potential, invokes neither
\* ks._numint.nr_uks nor ks._numint.large_rho_indices (it does invoke
\* ks._numint.hybrid_coeff), and exc on the result is 0 unless the functional
\* is hybrid and the layout ground-state, where it is minus the exact-exchange
\* correction.
C1_Hermi2 ==
    (IsVeff /\ last.a.hermi = 2) =>
        /\ last.r.n = <<0, 0>>
        /\ last.r.vxc = CoulombExchange(last.x)
        /\ ~Has(last.r.invoked, "_numint.nr_uks")
        /\ ~Has(last.r.invoked, "_numint.large_rho_indices")
        /\ Has(last.r.invoked, "_numint.hybrid_coeff")
        /\ grids = (IF last.grid0.coords = <<>> THEN build(NoGrid) ELSE last.grid0)
        /\ last.r.exc = (IF Hybrid(last.x) /\ GroundLayout(last.a)
                         THEN 0 - ExxCorrection(last.x) ELSE 0)

\* hermi == 2 with a hybrid functional in the ground-state layout: exc is not 0.
C1_Witness ==
    /\ IsVeff
    /\ last.a.hermi = 2
    /\ Hybrid(last.x)
    /\ GroundLayout(last.a)
    /\ last.r.exc # 0

\* The cutoff a call works with: the solver's when the call builds the grid.
ActiveCutoff == IF last.grid0.coords = <<>> THEN small_rho_cutoff ELSE Zero

PrunedInCall == Has(last.r.invoked, "_numint.large_rho_indices")

\* The grid a call leaves when it does not prune, and when it prunes.
GridUnpruned == IF last.grid0.coords = <<>> THEN build(NoGrid) ELSE last.grid0
GridPruned ==
    /\ grids.coords = <<Take(GridUnpruned.coords[1], last.x.idx)>>
    /\ grids.weights = <<Take(GridUnpruned.weights[1], last.x.idx)>>
    /\ grids.non0tab = grids.coords
    /\ Len(grids.weights[1]) = Len(grids.coords[1])

\* C2 as stated: the grid is pruned only when the active cutoff exceeds
\* 1e-20, the evaluation is ground-state, and each spin's integrated electron
\* count differs from the nominal count by less than 1% of the nominal count;
\* in every other call the grid's points are left unchanged.
C2_PruneNominal ==
    IsVeff =>
        LET cond == /\ DecGT(ActiveCutoff, PruneFloor)
                    /\ GroundLayout(last.a)
                    /\ \A s \in 1..2 :
                          100 * Abs(last.r.n[s] - nelec[s]) < nelec[s]
        IN  /\ PrunedInCall => (cond /\ GridPruned)
            /\ ~cond => grids = GridUnpruned

\* C2 amended: as C2, with the difference of each spin's counts less than 1%
\* of the integrated count.
C2_Prune ==
    IsVeff =>
        LET cond == /\ DecGT(ActiveCutoff, PruneFloor)
                    /\ GroundLayout(last.a)
                    /\ \A s \in 1..2 :
                          100 * Abs(last.r.n[s] - nelec[s]) < last.r.n[s]
        IN  /\ PrunedInCall => (cond /\ GridPruned)
            /\ ~cond => grids = GridUnpruned

\* A call that pruned points away with an integrated count 1% above the nominal.
C2_Witness ==
    /\ IsVeff
    /\ PrunedInCall
    /\ last.r.n[1] = 1010
    /\ Len(grids.coords[1]) < NPts

\* C3: a call that starts with grids.coords populated leaves the grid as it
\* is, whatever small_rho_cutoff, the density matrix and the electron counts:
\* pruning happens only in the call that builds the grid, and a pruned grid
\* is never narrowed again.
C3_NoRepruning == [][grids.coords # <<>> => grids' = grids]_vars

\* A ground-state call on a populated, already pruned grid, with the solver's
\* cutoff above 1e-20 and the electron counts matching: the grid is kept.
C3_Witness ==
    /\ IsVeff
    /\ last.grid0.coords # <<>>
    /\ Len(last.grid0.coords[1]) < NPts
    /\ DecGT(small_rho_cutoff, PruneFloor)
    /\ GroundLayout(last.a)
    /\ last.a.hermi = 1
    /\ last.r.n = nelec
    /\ grids = last.grid0

\* The functional's own energy and potential in a call.
FnExc == IF last.a.hermi = 2 THEN 0 ELSE last.x.exc
FnVxc == IF last.a.hermi = 2 THEN 0 ELSE last.x.vxc

\* C4 as stated: below 1e-10 only get_j is called and no exact-exchange term
\* enters vxc or exc; at or above 1e-10 get_jk is called, hyb * vk is
\* subtracted from vxc, and exc includes the exact-exchange correction.
C4_HybridAlwaysCorrected ==
    IsVeff =>
        IF ~Hybrid(last.x)
        THEN /\ Has(last.r.invoked, "get_j") /\ ~Has(last.r.invoked, "get_jk")
             /\ last.r.vxc = FnVxc + last.x.vj
             /\ last.r.exc = FnExc
        ELSE /\ Has(last.r.invoked, "get_jk") /\ ~Has(last.r.invoked, "get_j")
             /\ last.r.vxc = FnVxc + last.x.vj - last.x.vk * last.x.hyb
             /\ last.r.exc = FnExc - ExxCorrection(last.x)

\* C4 amended: as C4, with exc including the exact-exchange correction when
\* the evaluation is ground-state, and no correction otherwise.
C4_Hybrid ==
    IsVeff =>
        IF ~Hybrid(last.x)
        THEN /\ Has(last.r.invoked, "get_j") /\ ~Has(last.r.invoked, "get_jk")
             /\ last.r.vxc = FnVxc + last.x.vj
             /\ last.r.exc = FnExc
        ELSE /\ Has(last.r.invoked, "get_jk") /\ ~Has(last.r.invoked, "get_j")
             /\ last.r.vxc = FnVxc + last.x.vj - last.x.vk * last.x.hyb
             /\ last.r.exc = (IF GroundLayout(last.a)
                              THEN FnExc - ExxCorrection(last.x) ELSE FnExc)

\* A hybrid call outside the ground-state layout, with a trace that is not 0.
C4_Witness ==
    /\ IsVeff
    /\ Hybrid(last.x)
    /\ ~GroundLayout(last.a)
    /\ last.x.tr_k # 0
    /\ last.r.exc = FnExc

\* C5: energy_elec without a usable vhf calls get_veff for the solver's own
\* cell on the density matrices it was given (the current density when none)
\* and returns (e1 + ecoul + exc, ecoul + exc) of that result; with a vhf that
\* carries ecoul it does not call get_veff and uses the supplied values.
C5_EnergyElec ==
    last.op = "energy_elec" =>
        IF last.vhf = <<>> \/ last.vhf[1].ecoul = <<>>
        THEN /\ Len(last.e.call) = 1
             /\ last.e.call[1].cell \in {<<>>, <<CellObj>>}
             /\ last.e.call[1].dm =
                   <<IF last.dm_kpts = <<>> THEN make_rdm1 ELSE last.dm_kpts[1]>>
             /\ ~last.e.raised
             /\ last.e.ret = << e1_of(TrH) + last.e.veff[1].ecoul[1] + last.e.veff[1].exc,
                                last.e.veff[1].ecoul[1] + last.e.veff[1].exc >>
        ELSE /\ last.e.call = <<>>
             /\ last.e.ret = << e1_of(TrH) + last.vhf[1].ecoul[1] + last.vhf[1].exc,
                                last.vhf[1].ecoul[1] + last.vhf[1].exc >>

----------------------------------------------------------------------------
(***************************************************************************)
(* Properties of parse_xc                                                  *)
(***************************************************************************)

\* C10: parse_xc('.5*HF+.5*B3LYP,.5*VWN') returns the hybrid coefficient 0.7,
\* the sum of 0.5 from the HF term and 0.2 from B3LYP, and the functional
\* terms 1, 106, 131, 7 in that order with the weights 0.08, 0.72, 0.81, 0.69.
C10_ParseXC ==
    (xc_desc = <<".5", "*", "HF", "+", ".5", "*", "B3LYP", ",", ".5", "*", "VWN">>
     /\ xc_out # <<>>) =>
        /\ xc_out[1].ok
        /\ xc_out[1].hyb = 70
        /\ xc_out[1].hyb = 50 + 20
        /\ xc_out[1].fn_facs = << <<1, 8>>, <<106, 72>>, <<131, 81>>, <<7, 69>> >>

C10_Witness ==
    /\ xc_desc = <<".5", "*", "HF", "+", ".5", "*", "B3LYP", ",", ".5", "*", "VWN">>
    /\ xc_out # <<>>
    /\ xc_out[1].ok
====
